---- MODULE Spec2Model ----
(***************************************************************************)
(* Model of ImageProcessor (src/image_processor.py): the three session     *)
(* buffers, the slider/switch ParameterSet and the handlers that load an   *)
(* image, recompute the processed image, reset the parameters and save.    *)
(*                                                                         *)
(* An image is a record [h, w, ch, ops]: its height, width, channel count  *)
(* and the chain of OpenCV calls that produced its samples from a decoded  *)
(* file.  Each OpenCV call is an uninterpreted, deterministic function of  *)
(* its arguments, so two images with equal records hold equal samples.     *)
(* Canvas sizes are computed as the code computes them.  The display       *)
(* widgets (display_image, the labels) belong to the presentation layer    *)
(* and are not modelled.                                                   *)
(***************************************************************************)
EXTENDS Integers, Sequences, FiniteSets, TLC

VARIABLES
    original_image,       \* self.original_image: the cleaned baseline, or None
    original_image_old,   \* self.original_image_old: colour copy taken before cleanup
    processed_image,      \* self.processed_image: the output of the last evaluation
    original_image_path,  \* self.original_image_path
    sliders,              \* value of every QSlider, by attribute name (without _slider)
    switches,             \* checked state of every QCheckBox, by attribute name
    save_enabled,         \* self.save_button.isEnabled()
    last,                 \* history: the handler that ran last and how it ended
    regenerated,          \* history: the last update_processed_image ran the pipeline
    evals,                \* history: pipeline evaluations made by the last handler
    error_shown,          \* history: the last handler called show_error_message
    save,                 \* history: what the last handler did as save_image
    memo,                 \* history: one remembered evaluation (its inputs and output)
    nops,                 \* history: number of handlers run so far
    pure                  \* inputs and result of a stage applied to concrete samples

vars == <<original_image, original_image_old, processed_image, original_image_path,
          sliders, switches, save_enabled, last, regenerated, evals, error_shown,
          save, memo, nops, pure>>

-----------------------------------------------------------------------------
(* Bounds of the model *)

\* largest width and height of a decoded file
MaxDim == 2

\* number of handlers run in one behaviour
MaxOps == 3

\* largest width and height of the sample arrays a stage is applied to
MaxPx == 2

-----------------------------------------------------------------------------
(* Values *)

None == [h |-> 0, w |-> 0, ch |-> 0, ops |-> <<>>]

NoPath == ""

Op(name, args) == [name |-> name, args |-> args]

\* the image an OpenCV call returns: a new buffer whose samples are a function of
\* the input's samples and the call's arguments
Apply(img, name, args, h, w, ch) ==
    [h |-> h, w |-> w, ch |-> ch, ops |-> Append(img.ops, Op(name, args))]

\* numpy's ndarray.copy(): a new buffer with the same shape and samples
copy(img) == img

Max(a, b) == IF a >= b THEN a ELSE b

Min(a, b) == IF a <= b THEN a ELSE b

Abs(a) == IF a >= 0 THEN a ELSE 0 - a

\* Python's int() on a non-negative quotient n/d: truncation
IntDiv(n, d) == n \div d

-----------------------------------------------------------------------------
(* The widgets built by create_parameter_frame *)

SliderNames ==
    {"contrast", "brightness", "sharpness", "blur", "rotate",
     "top_left_x", "top_left_y", "top_right_x", "top_right_y",
     "bottom_left_x", "bottom_left_y", "bottom_right_x", "bottom_right_y",
     "crop_left", "crop_top", "crop_right", "crop_bottom"}

CornerNames ==
    {"top_left_x", "top_left_y", "top_right_x", "top_right_y",
     "bottom_left_x", "bottom_left_y", "bottom_right_x", "bottom_right_y"}

CropNames == {"crop_left", "crop_top", "crop_right", "crop_bottom"}

SwitchNames == {"moire_switch", "perspective_switch", "crop_switch"}

\* setRange of each slider
SliderMin(n) ==
    CASE n \in {"contrast", "sharpness", "blur"} \cup CropNames -> 0
      [] n = "brightness" -> -100
      [] n = "rotate" -> -180
      [] n \in CornerNames -> -100

SliderMax(n) ==
    CASE n = "contrast" -> 200
      [] n \in {"brightness", "sharpness"} \cup CornerNames \cup CropNames -> 100
      [] n = "blur" -> 20
      [] n = "rotate" -> 180

\* setValue of each slider at construction
SliderDefault(n) ==
    CASE n = "contrast" -> 100
      [] n \in {"crop_right", "crop_bottom"} -> 100
      [] OTHER -> 0

\* setChecked(False) of each switch at construction
SwitchDefault(n) == FALSE

DefaultSliders == [n \in SliderNames |-> SliderDefault(n)]

DefaultSwitches == [n \in SwitchNames |-> SwitchDefault(n)]

\* the slider positions the model tries, each within the slider's range
SliderValues(n) ==
    CASE n = "contrast" -> {100, 150}
      [] n = "brightness" -> {-100, 0}
      [] n = "sharpness" -> {0, 100}
      [] n = "blur" -> {0, 1}
      [] n = "rotate" -> {-90, 0, 45}
      [] n \in CornerNames -> {0, 100}
      [] n = "crop_left" -> {0, 50}
      [] n = "crop_top" -> {0, 50, 100}
      [] n \in {"crop_right", "crop_bottom"} -> {50, 100}

\* the positions asked of a slider: those above and, for two sliders, one past an
\* end of the range (a drag or a key press that would carry the handle beyond it)
SliderRequests(n) ==
    SliderValues(n) \cup (CASE n = "brightness" -> {-150}
                            [] n = "crop_right" -> {150}
                            [] OTHER -> {})

\* QSlider.setValue without the bounding to the range
setValue_Unbounded(n, value) == value

\* the value a QSlider holds after setValue(value): Qt bounds it to the range given
\* by setRange
setValue(n, value) == Max(SliderMin(n), Min(SliderMax(n), value))

-----------------------------------------------------------------------------
(* Files *)

Paths == {"scan.jpg", "page"}

\* what the three decode attempts of load_image_from_path make of a file:
\* nothing (ok = FALSE) or a 3-channel image of h rows and w columns
Files ==
    {[ok |-> FALSE, h |-> 0, w |-> 0]}
    \cup {[ok |-> TRUE, h |-> hh, w |-> ww] : hh \in 1..MaxDim, ww \in 1..MaxDim}

\* the files tried at a path: "scan.jpg" is an image of any of the sizes or a file
\* that does not decode, "page" is a file that does not decode
FilesAt(file_path) ==
    IF file_path = "page" THEN {[ok |-> FALSE, h |-> 0, w |-> 0]} ELSE Files

\* cv2.imdecode(..., cv2.IMREAD_COLOR) and the two cv2.imread fallbacks
Decode(file) ==
    IF file.ok
    THEN [h |-> file.h, w |-> file.w, ch |-> 3,
          ops |-> <<Op("imdecode", <<file.h, file.w>>)>>]
    ELSE None

\* grayscale conversion, adaptive threshold, dilate and composite of a load
Cleanup(img) == Apply(img, "cleanup", <<>>, img.h, img.w, 1)

-----------------------------------------------------------------------------
(* Geometry stages *)

\* |cos| and |sin| of the rotation matrix of cv2.getRotationMatrix2D, in millionths,
\* for the angles the model tries
AbsCos(angle) ==
    CASE Abs(angle) = 0 -> 1000000
      [] Abs(angle) = 45 -> 707106
      [] Abs(angle) = 90 -> 0
      [] Abs(angle) = 180 -> 1000000

AbsSin(angle) ==
    CASE Abs(angle) = 0 -> 0
      [] Abs(angle) = 45 -> 707106
      [] Abs(angle) = 90 -> 1000000
      [] Abs(angle) = 180 -> 0

\* the canvas cv2.warpAffine and cv2.warpPerspective allocate for a requested dsize:
\* an empty dsize (a zero side) makes them fall back to the size of the source
WarpCanvas(req_w, req_h, img) ==
    IF req_w <= 0 \/ req_h <= 0
    THEN [w |-> img.w, h |-> img.h]
    ELSE [w |-> req_w, h |-> req_h]

\* rotate_image with the two sides of the canvas exchanged
rotate_image_SidesSwapped(image, angle) ==
    IF angle = 0 THEN image
    ELSE LET height == image.h
             width == image.w
             new_width == IntDiv(height * AbsCos(angle) + width * AbsSin(angle), 1000000)
             new_height == IntDiv(height * AbsSin(angle) + width * AbsCos(angle), 1000000)
             canvas == WarpCanvas(new_width, new_height, image)
         IN  Apply(image, "rotate_image", <<angle, new_width, new_height>>,
                   canvas.h, canvas.w, image.ch)

rotate_image(image, angle) ==
    IF angle = 0 THEN image
    ELSE LET height == image.h
             width == image.w
             new_width == IntDiv(height * AbsSin(angle) + width * AbsCos(angle), 1000000)
             new_height == IntDiv(height * AbsCos(angle) + width * AbsSin(angle), 1000000)
             canvas == WarpCanvas(new_width, new_height, image)
         IN  Apply(image, "rotate_image", <<angle, new_width, new_height>>,
                   canvas.h, canvas.w, image.ch)

\* The offsets are the slider values, hundredths of the ratio the code passes.
\* dst_x and dst_y are the destination points in units of 1/200 pixel:
\* corner + (offset/100) * (side * 0.5).
apply_perspective_transform(image, top_left_x, top_left_y, top_right_x, top_right_y, bottom_left_x, bottom_left_y, bottom_right_x, bottom_right_y) ==
    LET height == image.h
        width == image.w
        dst_x == <<top_left_x * width,
                   200 * (width - 1) + top_right_x * width,
                   bottom_left_x * width,
                   200 * (width - 1) + bottom_right_x * width>>
        dst_y == <<top_left_y * height,
                   top_right_y * height,
                   200 * (height - 1) + bottom_left_y * height,
                   200 * (height - 1) + bottom_right_y * height>>
        min_x == Min(Min(dst_x[1], dst_x[2]), Min(dst_x[3], dst_x[4]))
        max_x == Max(Max(dst_x[1], dst_x[2]), Max(dst_x[3], dst_x[4]))
        min_y == Min(Min(dst_y[1], dst_y[2]), Min(dst_y[3], dst_y[4]))
        max_y == Max(Max(dst_y[1], dst_y[2]), Max(dst_y[3], dst_y[4]))
        new_width == IntDiv(max_x - min_x, 200)
        new_height == IntDiv(max_y - min_y, 200)
        canvas == WarpCanvas(new_width, new_height, image)
    IN  Apply(image, "apply_perspective_transform",
              <<new_width, new_height>> \o dst_x \o dst_y,
              canvas.h, canvas.w, image.ch)

-----------------------------------------------------------------------------
(* Photometric stages *)

\* contrast is the slider value, hundredths of the factor the code passes
adjust_contrast(image, contrast) ==
    Apply(image, "adjust_contrast", <<contrast>>, image.h, image.w, image.ch)

adjust_brightness(image, brightness) ==
    Apply(image, "adjust_brightness", <<brightness>>, image.h, image.w, image.ch)

\* sharpness is the slider value, hundredths of the weight the code passes
adjust_sharpness(image, sharpness) ==
    Apply(image, "adjust_sharpness", <<sharpness>>, image.h, image.w, image.ch)

apply_blur(image, blur_strength) ==
    LET kernel_size == blur_strength * 2 + 1
    IN  Apply(image, "apply_blur", <<kernel_size>>, image.h, image.w, image.ch)

\* CropBox without the reset of an empty range
CropBox_NoReset(height, width, left_ratio, top_ratio, right_ratio, bottom_ratio) ==
    [left |-> IntDiv(width * left_ratio, 100),
     right |-> IntDiv(width * right_ratio, 100),
     top |-> IntDiv(height * top_ratio, 100),
     bottom |-> IntDiv(height * bottom_ratio, 100)]

\* CropBox resetting both axes when either range is empty
CropBox_Coupled(height, width, left_ratio, top_ratio, right_ratio, bottom_ratio) ==
    LET left == IntDiv(width * left_ratio, 100)
        top == IntDiv(height * top_ratio, 100)
        right == IntDiv(width * right_ratio, 100)
        bottom == IntDiv(height * bottom_ratio, 100)
        full == left >= right \/ top >= bottom
    IN  [left |-> IF full THEN 0 ELSE left,
         right |-> IF full THEN width ELSE right,
         top |-> IF full THEN 0 ELSE top,
         bottom |-> IF full THEN height ELSE bottom]

\* The ratios are the slider values, hundredths of the ratio the code passes.
\* The pixel rectangle apply_crop slices from an image of the given size.
CropBox(height, width, left_ratio, top_ratio, right_ratio, bottom_ratio) ==
    LET left == IntDiv(width * left_ratio, 100)
        top == IntDiv(height * top_ratio, 100)
        right == IntDiv(width * right_ratio, 100)
        bottom == IntDiv(height * bottom_ratio, 100)
        full_w == left >= right
        full_h == top >= bottom
    IN  [left |-> IF full_w THEN 0 ELSE left,
         right |-> IF full_w THEN width ELSE right,
         top |-> IF full_h THEN 0 ELSE top,
         bottom |-> IF full_h THEN height ELSE bottom]

apply_crop(image, left_ratio, top_ratio, right_ratio, bottom_ratio) ==
    LET box == CropBox(image.h, image.w, left_ratio, top_ratio, right_ratio, bottom_ratio)
    IN  Apply(image, "apply_crop", <<box.top, box.bottom, box.left, box.right>>,
              box.bottom - box.top, box.right - box.left, image.ch)

-----------------------------------------------------------------------------
(* update_processed_image *)

\* remove_moire of the pre-cleanup copy, the mask rebuilt from its result and the
\* composite of that mask against the pre-cleanup copy
MoireStart(old) == Apply(old, "remove_moire", <<>>, old.h, old.w, old.ch)

\* StartImage taking the baseline whatever the moire switch says
StartImage_AlwaysBaseline(oi, old, prev, sw) == copy(oi)

\* StartImage continuing from the processed image of the evaluation before
StartImage_FromPrevious(oi, old, prev, sw) ==
    IF sw["moire_switch"] THEN MoireStart(old)
    ELSE IF prev # None THEN copy(prev) ELSE copy(oi)

\* the buffer the stages start from
StartImage(oi, old, prev, sw) ==
    IF sw["moire_switch"] THEN MoireStart(old) ELSE copy(oi)

\* PerspectiveStage without the test of the switch
PerspectiveStage_Ungated(img, sl, sw) ==
    IF \E n \in CornerNames : sl[n] # 0
    THEN apply_perspective_transform(img,
             sl["top_left_x"], sl["top_left_y"], sl["top_right_x"], sl["top_right_y"],
             sl["bottom_left_x"], sl["bottom_left_y"],
             sl["bottom_right_x"], sl["bottom_right_y"])
    ELSE img

PerspectiveStage(img, sl, sw) ==
    IF sw["perspective_switch"] /\ (\E n \in CornerNames : sl[n] # 0)
    THEN apply_perspective_transform(img,
             sl["top_left_x"], sl["top_left_y"], sl["top_right_x"], sl["top_right_y"],
             sl["bottom_left_x"], sl["bottom_left_y"],
             sl["bottom_right_x"], sl["bottom_right_y"])
    ELSE img

RotateStage(img, sl) ==
    IF sl["rotate"] # 0 THEN rotate_image(img, sl["rotate"]) ELSE img

ContrastStage(img, sl) ==
    IF sl["contrast"] # 100 THEN adjust_contrast(img, sl["contrast"]) ELSE img

BrightnessStage(img, sl) ==
    IF sl["brightness"] # 0 THEN adjust_brightness(img, sl["brightness"]) ELSE img

SharpnessStage(img, sl) ==
    IF sl["sharpness"] > 0 THEN adjust_sharpness(img, sl["sharpness"]) ELSE img

BlurStage(img, sl) ==
    IF sl["blur"] > 0 THEN apply_blur(img, sl["blur"]) ELSE img

CropStage(img, sl, sw) ==
    IF sw["crop_switch"]
       /\ (sl["crop_left"] > 0 \/ sl["crop_top"] > 0
           \/ sl["crop_right"] < 100 \/ sl["crop_bottom"] < 100)
    THEN apply_crop(img, sl["crop_left"], sl["crop_top"],
                    sl["crop_right"], sl["crop_bottom"])
    ELSE img

\* Pipeline with the brightness statement moved before the contrast statement
Pipeline_BrightnessFirst(oi, old, prev, sl, sw) ==
    LET s0 == StartImage(oi, old, prev, sw)
        s1 == PerspectiveStage(s0, sl, sw)
        s2 == RotateStage(s1, sl)
        s3 == BrightnessStage(s2, sl)
        s4 == ContrastStage(s3, sl)
        s5 == SharpnessStage(s4, sl)
        s6 == BlurStage(s5, sl)
        s7 == CropStage(s6, sl, sw)
    IN  s7

\* the statements of update_processed_image after the early return, in their order
Pipeline(oi, old, prev, sl, sw) ==
    LET s0 == StartImage(oi, old, prev, sw)
        s1 == PerspectiveStage(s0, sl, sw)
        s2 == RotateStage(s1, sl)
        s3 == ContrastStage(s2, sl)
        s4 == BrightnessStage(s3, sl)
        s5 == SharpnessStage(s4, sl)
        s6 == BlurStage(s5, sl)
        s7 == CropStage(s6, sl, sw)
    IN  s7

\* self.processed_image after update_processed_image
update_processed_image(oi, old, prev, sl, sw) ==
    IF oi = None THEN prev ELSE Pipeline(oi, old, prev, sl, sw)

\* whether update_processed_image gets past its early return
Evaluates(oi) == oi # None

-----------------------------------------------------------------------------
(* History values *)

NoMemo == [set |-> FALSE, oi |-> None, old |-> None, prev |-> None,
           sl |-> DefaultSliders, sw |-> DefaultSwitches, out |-> None, at |-> 0]

\* remember the evaluation just made, once in a behaviour
Remember(take, oi, old, sl, sw, out, at) ==
    IF take /\ ~memo.set /\ Evaluates(oi)
    THEN [set |-> TRUE, oi |-> oi, old |-> old, prev |-> processed_image,
          sl |-> sl, sw |-> sw, out |-> out, at |-> at]
    ELSE memo

NoPure == [fn |-> "none"]

\* no file name came back from the save dialog, or the handler was not save_image
NoSave == [chosen |-> FALSE, encoded |-> "no", written |-> FALSE, success_shown |-> FALSE]

-----------------------------------------------------------------------------
(* The handlers *)

\* ImageProcessor.__init__ and init_ui
Init ==
    /\ original_image = None
    /\ original_image_old = None
    /\ processed_image = None
    /\ original_image_path = NoPath
    /\ sliders = DefaultSliders
    /\ switches = DefaultSwitches
    /\ save_enabled = FALSE
    /\ last = "init"
    /\ regenerated = FALSE
    /\ evals = 0
    /\ error_shown = FALSE
    /\ save = NoSave
    /\ memo = NoMemo
    /\ nops = 0
    /\ pure = NoPure

\* load_image_from_path with the call of reset_parameters after a successful decode
\* (line 714, commented out in the code) in place
load_image_from_path_Resetting(file_path, file) ==
    /\ nops < MaxOps
    /\ nops' = nops + 1
    /\ original_image_path' = file_path
    /\ LET decoded == Decode(file)
       IN  IF decoded # None
           THEN /\ original_image_old' = copy(decoded)
                /\ original_image' = Cleanup(decoded)
                /\ processed_image' = copy(original_image')
                /\ save_enabled' = TRUE
                /\ error_shown' = FALSE
                /\ last' = "load_ok"
                /\ sliders' = DefaultSliders
                /\ switches' = DefaultSwitches
           ELSE /\ original_image' = decoded
                /\ error_shown' = TRUE
                /\ last' = "load_failed"
                /\ UNCHANGED <<original_image_old, processed_image, save_enabled,
                               sliders, switches>>
    /\ regenerated' = FALSE
    /\ evals' = 0
    /\ save' = NoSave
    /\ UNCHANGED <<memo, pure>>

\* load_image_from_path with a non-empty path whose file can be opened
load_image_from_path(file_path, file) ==
    /\ nops < MaxOps
    /\ nops' = nops + 1
    /\ original_image_path' = file_path
    /\ LET decoded == Decode(file)
       IN  IF decoded # None
           THEN /\ original_image_old' = copy(decoded)
                /\ original_image' = Cleanup(decoded)
                /\ processed_image' = copy(original_image')
                /\ save_enabled' = TRUE
                /\ error_shown' = FALSE
                /\ last' = "load_ok"
           ELSE /\ original_image' = decoded
                /\ error_shown' = TRUE
                /\ last' = "load_failed"
                /\ UNCHANGED <<original_image_old, processed_image, save_enabled>>
    /\ regenerated' = FALSE
    /\ evals' = 0
    /\ save' = NoSave
    /\ UNCHANGED <<sliders, switches, memo, pure>>

\* the user moves a slider to v: QSlider emits valueChanged when the value changes,
\* which is connected to update_processed_image; last tells whether v was within
\* the range of the slider
SetSlider(n, v, take) ==
    /\ nops < MaxOps
    /\ nops' = nops + 1
    /\ setValue(n, v) # sliders[n]
    /\ sliders' = [sliders EXCEPT ![n] = setValue(n, v)]
    /\ processed_image' = update_processed_image(original_image, original_image_old,
                                                 processed_image, sliders', switches)
    /\ regenerated' = Evaluates(original_image)
    /\ evals' = IF Evaluates(original_image) THEN 1 ELSE 0
    /\ memo' = Remember(take, original_image, original_image_old, sliders', switches,
                        processed_image', nops')
    /\ last' = IF v < SliderMin(n) \/ v > SliderMax(n) THEN "set_beyond" ELSE "set"
    /\ error_shown' = FALSE
    /\ save' = NoSave
    /\ UNCHANGED <<original_image, original_image_old, original_image_path, switches,
                   save_enabled, pure>>

\* the user clicks a check box: QCheckBox emits stateChanged, which is connected to
\* update_processed_image
ToggleSwitch(n, take) ==
    /\ nops < MaxOps
    /\ nops' = nops + 1
    /\ switches' = [switches EXCEPT ![n] = ~switches[n]]
    /\ processed_image' = update_processed_image(original_image, original_image_old,
                                                 processed_image, sliders, switches')
    /\ regenerated' = Evaluates(original_image)
    /\ evals' = IF Evaluates(original_image) THEN 1 ELSE 0
    /\ memo' = Remember(take, original_image, original_image_old, sliders, switches',
                        processed_image', nops')
    /\ last' = "set"
    /\ error_shown' = FALSE
    /\ save' = NoSave
    /\ UNCHANGED <<original_image, original_image_old, original_image_path, sliders,
                   save_enabled, pure>>

\* Recompute with the stages working in the baseline buffer: the start taken
\* without copy() and each stage writing into its input
Recompute_InBaseline(take) ==
    /\ nops < MaxOps
    /\ nops' = nops + 1
    /\ processed_image' = update_processed_image(original_image, original_image_old,
                                                 processed_image, sliders, switches)
    /\ original_image' = IF Evaluates(original_image) /\ ~switches["moire_switch"]
                         THEN processed_image' ELSE original_image
    /\ regenerated' = Evaluates(original_image)
    /\ evals' = IF Evaluates(original_image) THEN 1 ELSE 0
    /\ memo' = Remember(take, original_image, original_image_old, sliders, switches,
                        processed_image', nops')
    /\ last' = "recompute"
    /\ error_shown' = FALSE
    /\ save' = NoSave
    /\ UNCHANGED <<original_image_old, original_image_path, sliders,
                   switches, save_enabled, pure>>

\* update_processed_image called with the widgets as they are
Recompute(take) ==
    /\ nops < MaxOps
    /\ nops' = nops + 1
    /\ processed_image' = update_processed_image(original_image, original_image_old,
                                                 processed_image, sliders, switches)
    /\ regenerated' = Evaluates(original_image)
    /\ evals' = IF Evaluates(original_image) THEN 1 ELSE 0
    /\ memo' = Remember(take, original_image, original_image_old, sliders, switches,
                        processed_image', nops')
    /\ last' = "recompute"
    /\ error_shown' = FALSE
    /\ save' = NoSave
    /\ UNCHANGED <<original_image, original_image_old, original_image_path, sliders,
                   switches, save_enabled, pure>>

\* ResetOrder without the moire switch
ResetOrder_NoMoire ==
    <<"contrast", "brightness", "sharpness", "blur", "rotate",
      "top_left_x", "top_left_y", "top_right_x", "top_right_y",
      "bottom_left_x", "bottom_left_y", "bottom_right_x", "bottom_right_y",
      "perspective_switch",
      "crop_left", "crop_top", "crop_right", "crop_bottom",
      "crop_switch">>

\* the widgets reset_parameters sets, in its order
ResetOrder ==
    <<"contrast", "brightness", "sharpness", "blur", "rotate",
      "top_left_x", "top_left_y", "top_right_x", "top_right_y",
      "bottom_left_x", "bottom_left_y", "bottom_right_x", "bottom_right_y",
      "perspective_switch",
      "crop_left", "crop_top", "crop_right", "crop_bottom",
      "crop_switch", "moire_switch">>

\* one setValue or setChecked of reset_parameters: a widget whose value changes
\* emits its signal and update_processed_image runs before the next statement
ResetWidget(n, st, oi, old) ==
    LET sl1 == IF n \in SliderNames
               THEN [st.sl EXCEPT ![n] = SliderDefault(n)] ELSE st.sl
        sw1 == IF n \in SwitchNames
               THEN [st.sw EXCEPT ![n] = SwitchDefault(n)] ELSE st.sw
    IN  IF sl1 = st.sl /\ sw1 = st.sw
        THEN st
        ELSE [sl |-> sl1, sw |-> sw1,
              pi |-> update_processed_image(oi, old, st.pi, sl1, sw1),
              evals |-> st.evals + (IF Evaluates(oi) THEN 1 ELSE 0)]

RECURSIVE ResetFrom(_, _, _, _)
ResetFrom(i, st, oi, old) ==
    IF i > Len(ResetOrder) THEN st
    ELSE ResetFrom(i + 1, ResetWidget(ResetOrder[i], st, oi, old), oi, old)

\* reset_parameters
reset_parameters ==
    /\ nops < MaxOps
    /\ nops' = nops + 1
    /\ LET st == ResetFrom(1, [sl |-> sliders, sw |-> switches,
                               pi |-> processed_image, evals |-> 0],
                           original_image, original_image_old)
       IN  /\ sliders' = st.sl
           /\ switches' = st.sw
           /\ evals' = st.evals
           /\ processed_image' = IF original_image # None
                                 THEN copy(original_image) ELSE st.pi
    /\ regenerated' = FALSE
    /\ last' = "reset"
    /\ error_shown' = FALSE
    /\ save' = NoSave
    /\ UNCHANGED <<original_image, original_image_old, original_image_path,
                   save_enabled, memo, pure>>

\* the ways cv2.imencode ends: it returns success True, returns success False, or
\* raises
EncodeResults == {"ok", "failed", "raised"}

\* save_image with the button enabled.  chosen: the dialog returned a file name;
\* success: how cv2.imencode ended (an exception of the file write that follows a
\* successful encoding ends the handler as "raised" does); imwrite: what the
\* cv2.imwrite of the fallback returned, which the code does not look at.
save_image(chosen, success, imwrite) ==
    /\ nops < MaxOps
    /\ nops' = nops + 1
    /\ save_enabled
    /\ IF processed_image = None \/ ~chosen
       THEN /\ save' = NoSave
            /\ error_shown' = FALSE
       ELSE IF success = "ok"
       THEN /\ save' = [chosen |-> TRUE, encoded |-> success, written |-> TRUE,
                        success_shown |-> TRUE]
            /\ error_shown' = FALSE
       ELSE IF success = "failed"
       THEN /\ save' = [chosen |-> TRUE, encoded |-> success, written |-> imwrite,
                        success_shown |-> TRUE]
            /\ error_shown' = FALSE
       ELSE /\ save' = [chosen |-> TRUE, encoded |-> success, written |-> FALSE,
                        success_shown |-> FALSE]
            /\ error_shown' = TRUE
    /\ last' = "save"
    /\ evals' = 0
    /\ UNCHANGED <<original_image, original_image_old, processed_image,
                   original_image_path, sliders, switches, save_enabled, regenerated,
                   memo, pure>>

Next ==
    \/ \E file_path \in Paths : \E file \in FilesAt(file_path) :
           load_image_from_path(file_path, file)
    \/ \E n \in SliderNames : \E v \in SliderRequests(n), take \in BOOLEAN :
           SetSlider(n, v, take)
    \/ \E n \in SwitchNames, take \in BOOLEAN : ToggleSwitch(n, take)
    \/ \E take \in BOOLEAN : Recompute(take)
    \/ reset_parameters
    \/ \E chosen \in BOOLEAN, success \in EncodeResults, imwrite \in BOOLEAN :
           /\ (~chosen => success = "ok")
           /\ (success # "failed" => imwrite)
           /\ save_image(chosen, success, imwrite)

Spec == Init /\ [][Next]_vars

-----------------------------------------------------------------------------
(* Stages applied to concrete samples *)

\* cvRound: n/d (n >= 0, d > 0) rounded to the nearest integer, ties to even
RoundHalfEven(n, d) ==
    LET q == n \div d
        r == n % d
    IN  IF 2 * r < d THEN q
        ELSE IF 2 * r > d THEN q + 1
        ELSE IF q % 2 = 0 THEN q ELSE q + 1

\* one 8-bit sample of cv2.convertScaleAbs(image, alpha, beta):
\* saturate_cast<uchar>(|sample*alpha + beta|), alpha and beta in hundredths
convertScaleAbs(sample, alpha, beta) ==
    Min(255, RoundHalfEven(Abs(sample * alpha + beta), 100))

\* one sample of adjust_brightness: brightness_factor = brightness * 2.55
adjust_brightness_sample(sample, brightness) ==
    LET brightness_factor == brightness * 255
    IN  convertScaleAbs(sample, 100, brightness_factor)

\* one sample of adjust_contrast, contrast in hundredths
adjust_contrast_sample(sample, contrast) ==
    convertScaleAbs(sample, contrast, 0)

\* saturate_cast<uchar> of n/d: rounded to the nearest integer and held in 0..255
saturate_cast(n, d) == IF n <= 0 THEN 0 ELSE Min(255, RoundHalfEven(n, d))

\* one sample of cv2.filter2D with a 3x3 kernel that has one value at its centre and
\* one value at its eight neighbours (both in hundredths); neighbours is the sum of
\* the eight samples around the sample
filter2D(sample, neighbours, kernel_centre, kernel_neighbour) ==
    saturate_cast(kernel_centre * sample + kernel_neighbour * neighbours, 100)

\* one sample of cv2.addWeighted(src1, alpha, src2, beta, 0), alpha and beta in
\* hundredths
addWeighted(src1, alpha, src2, beta) ==
    saturate_cast(src1 * alpha + src2 * beta, 100)

\* adjust_sharpness_sample blending the convolved image onto the whole original
adjust_sharpness_sample_Added(sample, neighbours, sharpness) ==
    LET kernel_neighbour == (0 - 1) * sharpness
        kernel_centre == 8 * sharpness + 100
        sharpened == filter2D(sample, neighbours, kernel_centre, kernel_neighbour)
    IN  [kernel_centre |-> kernel_centre, kernel_neighbour |-> kernel_neighbour,
         alpha |-> 100, beta |-> sharpness, sharpened |-> sharpened,
         out |-> addWeighted(sample, 100, sharpened, sharpness)]

\* one sample of adjust_sharpness, sharpness in hundredths: the kernel the code
\* builds, the two weights it passes to addWeighted, the convolved sample and the
\* sample returned
adjust_sharpness_sample(sample, neighbours, sharpness) ==
    LET kernel_neighbour == (0 - 1) * sharpness
        kernel_centre == 8 * sharpness + 100
        sharpened == filter2D(sample, neighbours, kernel_centre, kernel_neighbour)
    IN  [kernel_centre |-> kernel_centre, kernel_neighbour |-> kernel_neighbour,
         alpha |-> 100 - sharpness, beta |-> sharpness, sharpened |-> sharpened,
         out |-> addWeighted(sample, 100 - sharpness, sharpened, sharpness)]

\* cv2.bitwise_and of two 8-bit samples
RECURSIVE bitwise_and(_, _)
bitwise_and(a, b) ==
    IF a = 0 \/ b = 0 THEN 0
    ELSE (a % 2) * (b % 2) + 2 * bitwise_and(a \div 2, b \div 2)

\* cv2.bitwise_not of an 8-bit sample
bitwise_not(a) == 255 - a

\* cv2.add of two 8-bit samples: the sum, saturated
add(a, b) == Min(255, a + b)

\* composite_sample adding the mask in place of its complement
composite_sample_MaskAdded(gray, mask) ==
    LET mask1 == bitwise_not(mask)
        binary == bitwise_and(gray, mask)
    IN  [binary |-> binary, mask1 |-> mask1, out |-> add(binary, mask)]

\* one sample of the composite that ends the cleanup of a load: gray is the sample
\* of the grayscale image, mask the sample of the dilated threshold image
composite_sample(gray, mask) ==
    LET mask1 == bitwise_not(mask)
        binary == bitwise_and(gray, mask)
    IN  [binary |-> binary, mask1 |-> mask1, out |-> add(binary, mask1)]

\* image[top:bottom, left:right] of apply_crop on an array of samples px[row][col],
\* rows and columns counted from 0
apply_crop_samples(px, height, width, left_ratio, top_ratio, right_ratio, bottom_ratio) ==
    LET box == CropBox(height, width, left_ratio, top_ratio, right_ratio, bottom_ratio)
    IN  [i \in 0..(box.bottom - box.top - 1) |->
            [j \in 0..(box.right - box.left - 1) |-> px[box.top + i][box.left + j]]]

\* the samples and brightness offsets tried; none of the offsets puts
\* sample + offset*2.55 half way between two integers
Samples == 0..255

BrightnessValues == {-100, -51, -1, 0, 1, 51, 100}

\* the crop ratios tried, in hundredths
CropRatios == {0, 30, 50, 100}

\* an array whose sample at (row, col) names that position
Identity(height, width) ==
    [i \in 0..(height - 1) |-> [j \in 0..(width - 1) |-> <<i, j>>]]

BrightnessInputs ==
    [fn : {"brightness"}, done : {FALSE}, sample : Samples,
     brightness : BrightnessValues, lower : BrightnessValues,
     out : {0}, out_lower : {0}]

CropInputs ==
    [fn : {"crop"}, done : {FALSE}, height : 1..MaxPx, width : 1..MaxPx,
     left : CropRatios, top : CropRatios, right : CropRatios, bottom : CropRatios,
     out : {<<>>}]

\* the rotation angles tried, in degrees
RotateAngles == {-180, -90, -45, 0, 45, 90, 180}

\* a decoded image of the given size
Decoded(height, width) == Decode([ok |-> TRUE, h |-> height, w |-> width])

RotateInputs ==
    [fn : {"rotate"}, done : {FALSE}, height : 1..MaxPx, width : 1..MaxPx,
     angle : RotateAngles, out : {None}]

\* A file name is a sequence of tokens, a string the concatenation of its tokens:
\* plain text, a piece of the shape _YYYYMMDD_HHMMSS, or a dot followed by letters.
\* A path is a directory and a file name.
Text(t) == [kind |-> "text", v |-> t]

Stamp(t) == [kind |-> "stamp", v |-> t]

Ext(e) == [kind |-> "ext", v |-> e]

NoName == <<>>

\* os.path.splitext: the extension is the last dot-piece unless the name starts
\* with it
splitext(name) ==
    IF Len(name) > 1 /\ name[Len(name)].kind = "ext"
    THEN [root |-> SubSeq(name, 1, Len(name) - 1), ext |-> <<name[Len(name)]>>]
    ELSE [root |-> name, ext |-> NoName]

\* re.search(r'_\d{8}_\d{6}$', name_without_ext)
HasTimestampSuffix(name_without_ext) ==
    /\ Len(name_without_ext) > 0
    /\ name_without_ext[Len(name_without_ext)].kind = "stamp"

\* str.replace(old, new) on a path: every occurrence in the directory and the name
ReplaceAll(path, old, new) ==
    LET In(seq) == [i \in 1..Len(seq) |-> IF seq[i] = old THEN new ELSE seq[i]]
    IN  [dir |-> In(path.dir), name |-> In(path.name)]

\* now.strftime("_%Y%m%d_%H%M%S")
timestamp == <<Stamp("now")>>

\* the name save_image proposes in the dialog; original_file_name is the base name
\* of self.original_image_path, NoName when no path is stored
default_file_name(original_file_name) ==
    IF original_file_name # NoName
    THEN LET name_without_ext == splitext(original_file_name).root
             ext == splitext(original_file_name).ext
             file_ext == IF ext = NoName THEN <<Ext(".png")>> ELSE ext
         IN  name_without_ext \o timestamp \o file_ext
    ELSE <<Text("processed_image")>> \o timestamp \o <<Ext(".png")>>

\* the path save_image writes to, for the path the dialog returned
new_file_path(file_path) ==
    LET file_dir == file_path.dir
        name_without_ext == splitext(file_path.name).root
        ext == splitext(file_path.name).ext
        file_ext == IF ext = NoName THEN <<Ext(".png")>> ELSE ext
        file_name == IF ext = NoName THEN name_without_ext \o file_ext ELSE file_path.name
        new_file_name == IF ~HasTimestampSuffix(name_without_ext)
                         THEN name_without_ext \o timestamp \o file_ext
                         ELSE file_name
        joined == [dir |-> file_dir, name |-> new_file_name]
    IN  IF file_ext[1].v \in {".jpg", ".jpeg", ".png"}
        THEN joined
        ELSE ReplaceAll(joined, file_ext[1], Ext(".png"))

\* the base names of the files loaded
OriginalNames ==
    {NoName,
     <<Text("scan"), Ext(".jpg")>>,
     <<Text("page")>>,
     <<Text("scan"), Ext(".bmp")>>,
     <<Text("scan"), Stamp("earlier"), Ext(".jpg")>>}

\* the names the user types in the dialog; NoName: the proposed name is accepted
TypedNames ==
    {NoName,
     <<Text("out")>>,
     <<Text("out"), Ext(".png")>>,
     <<Text("out"), Ext(".bmp")>>,
     <<Text("out"), Stamp("earlier")>>,
     <<Text("out"), Stamp("earlier"), Ext(".jpg")>>}

\* the directories the user saves to
Dirs == {<<Text("out")>>, <<Text("scans"), Ext(".bmp")>>}

SaveNameInputs ==
    [fn : {"save_name"}, done : {FALSE}, original_file_name : OriginalNames,
     typed : TypedNames, dir : Dirs, file_path : {[dir |-> NoName, name |-> NoName]},
     out : {[dir |-> NoName, name |-> NoName]}]

\* the sharpness weights tried, in hundredths, and the sums of the eight samples
\* around a sample: a flat neighbourhood (8 times the sample) and four others
SharpnessValues == {0, 25, 50, 100}

NeighbourSums(sample) == {8 * sample, 0, 510, 1021, 2040}

SharpenInputs ==
    UNION {{[fn |-> "sharpen", done |-> FALSE, sample |-> c, neighbours |-> nb,
             sharpness |-> sh, res |-> adjust_sharpness_sample(0, 0, 0)] :
               nb \in NeighbourSums(c), sh \in SharpnessValues} : c \in Samples}

\* the samples of a mask: cv2.adaptiveThreshold with maxValue 255 gives 0 or 255
\* and the dilation keeps them
MaskSamples == {0, 255}

CompositeInputs ==
    [fn : {"composite"}, done : {FALSE}, gray : Samples, mask : MaskSamples,
     res : {composite_sample(0, 0)}]

\* the corner offsets tried, the slider values (hundredths of the ratio)
PerspectiveOffsets == {-100, 0, 100}

PerspectiveInputs ==
    [fn : {"perspective"}, done : {FALSE}, height : 1..MaxPx, width : 1..MaxPx,
     top_left_x : PerspectiveOffsets, top_left_y : PerspectiveOffsets,
     top_right_x : PerspectiveOffsets, top_right_y : PerspectiveOffsets,
     bottom_left_x : PerspectiveOffsets, bottom_left_y : PerspectiveOffsets,
     bottom_right_x : PerspectiveOffsets, bottom_right_y : PerspectiveOffsets,
     out : {None}]

\* the sessions reset_parameters is applied to: an image of the given size loaded,
\* three sliders and two switches at a default or off it
ResetInputs ==
    [fn : {"reset"}, done : {FALSE}, height : 1..MaxPx, width : 1..MaxPx,
     contrast : {100, 150}, rotate : {0, 45}, crop_top : {0, 50},
     crop_switch : BOOLEAN, moire_switch : BOOLEAN,
     evals : {0}, out_sliders : {DefaultSliders}, out_switches : {DefaultSwitches}]

InitPure ==
    /\ original_image = None
    /\ original_image_old = None
    /\ processed_image = None
    /\ original_image_path = NoPath
    /\ sliders = DefaultSliders
    /\ switches = DefaultSwitches
    /\ save_enabled = FALSE
    /\ last = "init"
    /\ regenerated = FALSE
    /\ evals = 0
    /\ error_shown = FALSE
    /\ save = NoSave
    /\ memo = NoMemo
    /\ nops = 0
    /\ pure \in BrightnessInputs \cup CropInputs \cup RotateInputs \cup SaveNameInputs
                \cup SharpenInputs \cup CompositeInputs \cup PerspectiveInputs
                \cup ResetInputs

ApplyBrightness ==
    /\ pure.fn = "brightness"
    /\ ~pure.done
    /\ pure' = [pure EXCEPT !.done = TRUE,
                            !.out = adjust_brightness_sample(pure.sample, pure.brightness),
                            !.out_lower = adjust_brightness_sample(pure.sample, pure.lower)]
    /\ UNCHANGED <<original_image, original_image_old, processed_image,
                   original_image_path, sliders, switches, save_enabled, last,
                   regenerated, evals, error_shown, save, memo, nops>>

ApplyCrop ==
    /\ pure.fn = "crop"
    /\ ~pure.done
    /\ pure' = [pure EXCEPT !.done = TRUE,
                            !.out = apply_crop_samples(Identity(pure.height, pure.width),
                                        pure.height, pure.width, pure.left, pure.top,
                                        pure.right, pure.bottom)]
    /\ UNCHANGED <<original_image, original_image_old, processed_image,
                   original_image_path, sliders, switches, save_enabled, last,
                   regenerated, evals, error_shown, save, memo, nops>>

ApplyRotate ==
    /\ pure.fn = "rotate"
    /\ ~pure.done
    /\ pure' = [pure EXCEPT !.done = TRUE,
                            !.out = rotate_image(Decoded(pure.height, pure.width),
                                                 pure.angle)]
    /\ UNCHANGED <<original_image, original_image_old, processed_image,
                   original_image_path, sliders, switches, save_enabled, last,
                   regenerated, evals, error_shown, save, memo, nops>>

\* the file name part of save_image: the dialog returns the typed name, or the
\* proposed one, in the chosen directory
ApplySaveName ==
    /\ pure.fn = "save_name"
    /\ ~pure.done
    /\ LET file_path == [dir |-> pure.dir,
                         name |-> IF pure.typed = NoName
                                  THEN default_file_name(pure.original_file_name)
                                  ELSE pure.typed]
       IN  pure' = [pure EXCEPT !.done = TRUE,
                                !.file_path = file_path,
                                !.out = new_file_path(file_path)]
    /\ UNCHANGED <<original_image, original_image_old, processed_image,
                   original_image_path, sliders, switches, save_enabled, last,
                   regenerated, evals, error_shown, save, memo, nops>>

ApplySharpen ==
    /\ pure.fn = "sharpen"
    /\ ~pure.done
    /\ pure' = [pure EXCEPT !.done = TRUE,
                            !.res = adjust_sharpness_sample(pure.sample, pure.neighbours,
                                                            pure.sharpness)]
    /\ UNCHANGED <<original_image, original_image_old, processed_image,
                   original_image_path, sliders, switches, save_enabled, last,
                   regenerated, evals, error_shown, save, memo, nops>>

ApplyComposite ==
    /\ pure.fn = "composite"
    /\ ~pure.done
    /\ pure' = [pure EXCEPT !.done = TRUE,
                            !.res = composite_sample(pure.gray, pure.mask)]
    /\ UNCHANGED <<original_image, original_image_old, processed_image,
                   original_image_path, sliders, switches, save_enabled, last,
                   regenerated, evals, error_shown, save, memo, nops>>

ApplyPerspective ==
    /\ pure.fn = "perspective"
    /\ ~pure.done
    /\ pure' = [pure EXCEPT !.done = TRUE,
                            !.out = apply_perspective_transform(
                                        Decoded(pure.height, pure.width),
                                        pure.top_left_x, pure.top_left_y,
                                        pure.top_right_x, pure.top_right_y,
                                        pure.bottom_left_x, pure.bottom_left_y,
                                        pure.bottom_right_x, pure.bottom_right_y)]
    /\ UNCHANGED <<original_image, original_image_old, processed_image,
                   original_image_path, sliders, switches, save_enabled, last,
                   regenerated, evals, error_shown, save, memo, nops>>

\* the statements of reset_parameters on a loaded session: the widgets after them
\* and the number of evaluations their signals started
ApplyReset ==
    /\ pure.fn = "reset"
    /\ ~pure.done
    /\ LET old == copy(Decoded(pure.height, pure.width))
           oi == Cleanup(Decoded(pure.height, pure.width))
           sl == [DefaultSliders EXCEPT !["contrast"] = pure.contrast,
                                        !["rotate"] = pure.rotate,
                                        !["crop_top"] = pure.crop_top]
           sw == [DefaultSwitches EXCEPT !["crop_switch"] = pure.crop_switch,
                                         !["moire_switch"] = pure.moire_switch]
           st == ResetFrom(1, [sl |-> sl, sw |-> sw,
                               pi |-> update_processed_image(oi, old, oi, sl, sw),
                               evals |-> 0], oi, old)
       IN  pure' = [pure EXCEPT !.done = TRUE, !.evals = st.evals,
                                !.out_sliders = st.sl, !.out_switches = st.sw]
    /\ UNCHANGED <<original_image, original_image_old, processed_image,
                   original_image_path, sliders, switches, save_enabled, last,
                   regenerated, evals, error_shown, save, memo, nops>>

NextPure ==
    \/ ApplyBrightness
    \/ ApplyCrop
    \/ ApplyRotate
    \/ ApplySaveName
    \/ ApplySharpen
    \/ ApplyComposite
    \/ ApplyPerspective
    \/ ApplyReset

PureSpec == InitPure /\ [][NextPure]_vars

-----------------------------------------------------------------------------
(* Reading an evaluation off its result *)

\* the stages of the pipeline in the order the specification fixes
StageOrder ==
    <<"apply_perspective_transform", "rotate_image", "adjust_contrast",
      "adjust_brightness", "adjust_sharpness", "apply_blur", "apply_crop">>

StageNames == {StageOrder[i] : i \in 1..Len(StageOrder)}

IsStage(op) == op.name \in StageNames

NotStage(op) == op.name \notin StageNames

NameOf(ops) == [i \in 1..Len(ops) |-> ops[i].name]

\* the stages that produced img, first applied first
StagesOf(img) == NameOf(SelectSeq(img.ops, IsStage))

\* the calls that produced the buffer the stages of img started from
StartOf(img) == SelectSeq(img.ops, NotStage)

\* whether the specification has a stage take part for the given ParameterSet
StageEnabled(name, sl, sw) ==
    CASE name = "apply_perspective_transform" ->
             sw["perspective_switch"] /\ (\E n \in CornerNames : sl[n] # 0)
      [] name = "rotate_image" -> sl["rotate"] # 0
      [] name = "adjust_contrast" -> sl["contrast"] # 100
      [] name = "adjust_brightness" -> sl["brightness"] # 0
      [] name = "adjust_sharpness" -> sl["sharpness"] > 0
      [] name = "apply_blur" -> sl["blur"] > 0
      [] name = "apply_crop" ->
             sw["crop_switch"]
             /\ <<sl["crop_left"], sl["crop_top"], sl["crop_right"], sl["crop_bottom"]>>
                # <<0, 0, 100, 100>>

EnabledStages(sl, sw) ==
    LET On(name) == StageEnabled(name, sl, sw)
    IN  SelectSeq(StageOrder, On)

-----------------------------------------------------------------------------
(* C1 *)

-----------------------------------------------------------------------------
(* C2 *)

HasCall(img, name) == \E i \in 1..Len(img.ops) : img.ops[i].name = name

\* C2: the buffer an evaluation starts from is chosen by the moire switch alone: with
\* the switch on it is derived from the pre-cleanup copy (denoise, mask, composite) and
\* nothing of the cleaned baseline enters it; with the switch off it is a copy of the
\* baseline and the denoise path takes no part.
C2_StartFromToggle ==
    regenerated =>
        IF switches["moire_switch"]
        THEN /\ StartOf(processed_image)
                   = Append(original_image_old.ops, Op("remove_moire", <<>>))
             /\ ~HasCall(processed_image, "cleanup")
        ELSE /\ StartOf(processed_image) = original_image.ops
             /\ ~HasCall(processed_image, "remove_moire")

\* an evaluation made with the moire switch on
C2_Witness ==
    /\ regenerated
    /\ switches["moire_switch"]
    /\ HasCall(processed_image, "remove_moire")

-----------------------------------------------------------------------------
(* C3 *)

\* the evaluation just made had the buffers and parameters of the remembered one
SameInputsAsRemembered ==
    /\ regenerated
    /\ memo.set
    /\ memo.oi = original_image
    /\ memo.old = original_image_old
    /\ memo.sl = sliders
    /\ memo.sw = switches

\* C3: two evaluations with the same pre-cleanup copy, baseline and parameters give the
\* same processed image, whatever handlers ran before them and whatever the processed
\* image was when they started.
C3_Deterministic ==
    SameInputsAsRemembered => processed_image = memo.out

\* a later evaluation with the remembered inputs; the remembered one replaced a
\* processed image that differed from its result, the later one started from that
\* result
C3_Witness ==
    /\ SameInputsAsRemembered
    /\ memo.at < nops
    /\ memo.prev # memo.out
    /\ last = "recompute"

-----------------------------------------------------------------------------
(* C4 *)

\* C4: a load that fails to decode replaces no buffer: the baseline, the pre-cleanup
\* copy and the processed image are what they were before the call (so a loaded
\* session stays loaded and an empty one stays empty).
C4_FailedLoadKeepsBuffers ==
    [][last' = "load_failed" =>
          /\ original_image' = original_image
          /\ original_image_old' = original_image_old
          /\ processed_image' = processed_image]_vars

-----------------------------------------------------------------------------
(* C5 *)

\* C5: once an image has been loaded, every change of a parameter regenerates the
\* processed image from the loaded buffers, also after a later load failed to decode.
C5_UsableAfterFailedLoad ==
    (last = "set" /\ original_image_old # None) => regenerated

-----------------------------------------------------------------------------
(* C6 *)

\* the defaults the specification documents
DocumentedSliders ==
    [n \in SliderNames |->
        CASE n = "contrast" -> 100
          [] n \in {"brightness", "sharpness", "blur", "rotate"} -> 0
          [] n \in CornerNames -> 0
          [] n \in {"crop_left", "crop_top"} -> 0
          [] n \in {"crop_right", "crop_bottom"} -> 100]

DocumentedSwitches == [n \in SwitchNames |-> FALSE]

\* C6: after reset_parameters on a loaded session every slider and switch is at its
\* documented default, the processed image is a copy of the baseline, and an
\* evaluation made right after gives that same image.
C6_ResetRestoresBaseline ==
    (last = "reset" /\ original_image # None) =>
        /\ sliders = DocumentedSliders
        /\ switches = DocumentedSwitches
        /\ processed_image = original_image
        /\ update_processed_image(original_image, original_image_old, processed_image,
                                  sliders, switches) = processed_image

\* a reset of a loaded session that had a widget off its default
C6_Witness ==
    /\ last = "reset"
    /\ original_image # None
    /\ evals > 0

-----------------------------------------------------------------------------
(* C7 *)

\* clamp(sample + offset*2.55, 0, 255), rounded to a whole sample as the code rounds
ClampedBrightness(sample, offset) ==
    LET sum == sample * 100 + offset * 255
    IN  IF sum <= 0 THEN 0 ELSE Min(255, RoundHalfEven(sum, 100))

\* C7: brightness maps a sample s to clamp(s + offset*2.55, 0, 255): a negative sum
\* gives 0, and a lower offset never gives a higher sample.
C7_BrightnessClamps ==
    (pure.fn = "brightness" /\ pure.done) =>
        /\ pure.out = ClampedBrightness(pure.sample, pure.brightness)
        /\ (pure.sample * 100 + pure.brightness * 255 < 0 => pure.out = 0)
        /\ (pure.lower <= pure.brightness => pure.out_lower <= pure.out)

-----------------------------------------------------------------------------
(* C8 *)

\* C8: crop truncates the four ratios to pixel coordinates and treats the axes
\* separately: left >= right gives the columns 0..width-1 and keeps the rows,
\* top >= bottom gives the rows 0..height-1 and keeps the columns; the result is
\* exactly the rows top..bottom-1 and the columns left..right-1 of the input.
C8_CropAxesIndependent ==
    (pure.fn = "crop" /\ pure.done) =>
        LET left == (pure.width * pure.left) \div 100
            right == (pure.width * pure.right) \div 100
            top == (pure.height * pure.top) \div 100
            bottom == (pure.height * pure.bottom) \div 100
            c0 == IF left >= right THEN 0 ELSE left
            c1 == IF left >= right THEN pure.width ELSE right
            r0 == IF top >= bottom THEN 0 ELSE top
            r1 == IF top >= bottom THEN pure.height ELSE bottom
        IN  /\ DOMAIN pure.out = 0..(r1 - r0 - 1)
            /\ \A i \in DOMAIN pure.out :
                   /\ DOMAIN pure.out[i] = 0..(c1 - c0 - 1)
                   /\ \A j \in DOMAIN pure.out[i] : pure.out[i][j] = <<r0 + i, c0 + j>>

\* a crop whose columns are reset to the full width while its rows are cut
C8_Witness ==
    /\ pure.fn = "crop"
    /\ pure.done
    /\ (pure.width * pure.left) \div 100 >= (pure.width * pure.right) \div 100
    /\ (pure.height * pure.top) \div 100 < (pure.height * pure.bottom) \div 100
    /\ (pure.height * pure.bottom) \div 100 - (pure.height * pure.top) \div 100
           < pure.height
    /\ DOMAIN pure.out[0] = 0..(pure.width - 1)

-----------------------------------------------------------------------------
(* C9 *)

\* the canvas a stage asked for, read off the call it left in the chain
RequestsEmpty(op) ==
    CASE op.name = "apply_perspective_transform" -> op.args[1] <= 0 \/ op.args[2] <= 0
      [] op.name = "rotate_image" -> op.args[2] <= 0 \/ op.args[3] <= 0
      [] op.name = "apply_crop" -> op.args[2] <= op.args[1] \/ op.args[4] <= op.args[3]
      [] OTHER -> FALSE

\* C9: every buffer an evaluation produces has positive width and height, and no
\* stage (perspective warp, rotate, crop) asks for a canvas with a zero side.
C9_PositiveCanvases ==
    regenerated =>
        /\ processed_image.w > 0
        /\ processed_image.h > 0
        /\ \A i \in 1..Len(processed_image.ops) : ~RequestsEmpty(processed_image.ops[i])

-----------------------------------------------------------------------------
(* C10 *)

ZeroCorners(sl) == [n \in SliderNames |-> IF n \in CornerNames THEN 0 ELSE sl[n]]

FullCrop(sl) ==
    [n \in SliderNames |->
        CASE n \in {"crop_left", "crop_top"} -> 0
          [] n \in {"crop_right", "crop_bottom"} -> 100
          [] OTHER -> sl[n]]

\* C10: with the perspective switch off, or on with all eight offsets 0, no warp is
\* applied and the processed image is the one obtained with the offsets at 0; with the
\* crop switch off no crop is applied and the processed image is the one obtained with
\* the full-frame rectangle.
C10_TogglesGate ==
    regenerated =>
        /\ (~switches["perspective_switch"] \/ (\A n \in CornerNames : sliders[n] = 0))
               => /\ ~HasCall(processed_image, "apply_perspective_transform")
                  /\ processed_image
                       = Pipeline(original_image, original_image_old, processed_image,
                                  ZeroCorners(sliders), switches)
        /\ ~switches["crop_switch"]
               => /\ ~HasCall(processed_image, "apply_crop")
                  /\ processed_image
                       = Pipeline(original_image, original_image_old, processed_image,
                                  FullCrop(sliders), switches)

\* an evaluation with both switches off, an offset other than 0 and a rectangle
\* other than the full frame
C10_Witness ==
    /\ regenerated
    /\ ~switches["perspective_switch"]
    /\ ~switches["crop_switch"]
    /\ \E n \in CornerNames : sliders[n] # 0
    /\ \E n \in {"crop_left", "crop_top"} : sliders[n] # 0

-----------------------------------------------------------------------------
(* C11 *)

\* n/d (n >= 0, d > 0) rounded to the nearest integer
Rounded(n, d) == (2 * n + d) \div (2 * d)

\* C11 as stated: rotating an image of width w and height h by an angle other than 0
\* gives a canvas round(h*|sin| + w*|cos|) wide and round(h*|cos| + w*|sin|) high;
\* rotating by 0 gives the input buffer.
C11_RoundedCanvas ==
    (pure.fn = "rotate" /\ pure.done) =>
        IF pure.angle = 0
        THEN pure.out = Decoded(pure.height, pure.width)
        ELSE /\ pure.out.w = Rounded(pure.height * AbsSin(pure.angle)
                                        + pure.width * AbsCos(pure.angle), 1000000)
             /\ pure.out.h = Rounded(pure.height * AbsCos(pure.angle)
                                        + pure.width * AbsSin(pure.angle), 1000000)

\* C11 amended: the two sides of the canvas are h*|sin| + w*|cos| and
\* h*|cos| + w*|sin| truncated to whole pixels (not rounded); rotating by 0 gives the
\* input buffer.
C11_TruncatedCanvas ==
    (pure.fn = "rotate" /\ pure.done) =>
        IF pure.angle = 0
        THEN pure.out = Decoded(pure.height, pure.width)
        ELSE /\ pure.out.w = (pure.height * AbsSin(pure.angle)
                                 + pure.width * AbsCos(pure.angle)) \div 1000000
             /\ pure.out.h = (pure.height * AbsCos(pure.angle)
                                 + pure.width * AbsSin(pure.angle)) \div 1000000

\* a rotation whose exact canvas side has a fraction above one half: 2 by 2 pixels
\* turned by 45 degrees, 2.83 pixels wide, rotated onto 2 columns
C11_Witness ==
    /\ pure.fn = "rotate"
    /\ pure.done
    /\ pure.angle = 45
    /\ pure.height = 2
    /\ pure.width = 2
    /\ pure.out.w = 2

-----------------------------------------------------------------------------
(* C12 *)

\* the ranges the specification documents, in the units of the sliders
DocumentedMin(n) ==
    CASE n \in {"contrast", "sharpness", "blur"} -> 0
      [] n = "brightness" -> -100
      [] n = "rotate" -> -180
      [] n \in CornerNames -> -100
      [] n \in CropNames -> 0

DocumentedMax(n) ==
    CASE n = "contrast" -> 200
      [] n \in {"brightness", "sharpness"} -> 100
      [] n = "blur" -> 20
      [] n = "rotate" -> 180
      [] n \in CornerNames -> 100
      [] n \in CropNames -> 100

InDocumentedRange ==
    \A n \in SliderNames : DocumentedMin(n) <= sliders[n] /\ sliders[n] <= DocumentedMax(n)

-----------------------------------------------------------------------------
(* C13 *)

\* the crop rectangle the ParameterSet holds has an empty range of columns or rows
StoredCropEmpty ==
    \/ sliders["crop_left"] >= sliders["crop_right"]
    \/ sliders["crop_top"] >= sliders["crop_bottom"]

\* C13 as stated: in every reachable state the crop rectangle of the ParameterSet has
\* left < right and top < bottom.
C13_StoredCropOrdered == ~StoredCropEmpty

\* C13 amended: each of the four crop fractions lies in [0,1] and they are not tied
\* to each other, so left >= right or top >= bottom can be stored; an evaluation
\* never cuts such a rectangle: every crop it applies takes at least one row and one
\* column, left < right and top < bottom in pixels.
C13_CutCropOrdered ==
    /\ \A n \in CropNames : 0 <= sliders[n] /\ sliders[n] <= 100
    /\ regenerated =>
           \A i \in 1..Len(processed_image.ops) :
               LET op == processed_image.ops[i]
               IN  op.name = "apply_crop" =>
                       /\ 0 <= op.args[1] /\ op.args[1] < op.args[2]
                       /\ 0 <= op.args[3] /\ op.args[3] < op.args[4]

\* an evaluation that cropped while the stored rectangle had top >= bottom
C13_Witness ==
    /\ regenerated
    /\ HasCall(processed_image, "apply_crop")
    /\ sliders["crop_top"] >= sliders["crop_bottom"]

-----------------------------------------------------------------------------
(* C14 *)

\* C14: when the encoding of the processed image fails during a save and no file is
\* written, the user is shown an error and is never told the image was saved.
C14_EncodeFailureSurfaced ==
    (last = "save" /\ save.chosen /\ save.encoded # "ok" /\ ~save.written) =>
        /\ error_shown
        /\ ~save.success_shown

-----------------------------------------------------------------------------
(* C15 *)

\* a name without its extension
StemOf(name) ==
    IF Len(name) > 1 /\ name[Len(name)].kind = "ext"
    THEN SubSeq(name, 1, Len(name) - 1) ELSE name

\* the number of timestamp-shaped pieces a name ends with
RECURSIVE TrailingStamps(_)
TrailingStamps(stem) ==
    IF Len(stem) = 0 \/ stem[Len(stem)].kind # "stamp" THEN 0
    ELSE 1 + TrailingStamps(SubSeq(stem, 1, Len(stem) - 1))

\* C15: the saved file name carries exactly one timestamp suffix before its
\* extension: one is appended to a name without, and a name that already ends with
\* one (the original file's or the one the user chose) gets no second one.
C15_OneTimestampSuffix ==
    (pure.fn = "save_name" /\ pure.done) =>
        /\ TrailingStamps(StemOf(pure.out.name)) = 1
        /\ Len(pure.out.name) > 1
        /\ pure.out.name[Len(pure.out.name)].kind = "ext"

-----------------------------------------------------------------------------
(* C16 *)

\* C16: a load, successful or failed, leaves every slider and every switch at the
\* value it had before the load.
C16_LoadKeepsParameters ==
    [][last' \in {"load_ok", "load_failed"} =>
          /\ sliders' = sliders
          /\ switches' = switches]_vars

\* a successful load made with a slider and a switch off their defaults
C16_Witness ==
    /\ last = "load_ok"
    /\ sliders # DefaultSliders
    /\ switches # DefaultSwitches

-----------------------------------------------------------------------------
(* C17 *)

\* C17: a change of a parameter, a recomputation, a reset and a save leave the
\* baseline and the pre-cleanup copy as they were: sample for sample what the load
\* left in them.
C17_BuffersFramed ==
    [][last' \in {"set", "set_beyond", "recompute", "reset", "save"} =>
          /\ original_image' = original_image
          /\ original_image_old' = original_image_old]_vars

\* a processed image that differs from the baseline has been saved, and the buffers
\* are those of the load
C17_Witness ==
    /\ last = "save"
    /\ save.written
    /\ original_image # None
    /\ processed_image # original_image
    /\ original_image = Cleanup(original_image_old)

-----------------------------------------------------------------------------
(* C18 *)

\* C18: the baseline and the pre-cleanup copy are both absent or both present, and
\* when present they come from one decoded image: the copy is that image and the
\* baseline is its cleanup; right after a successful load the processed image is a
\* copy of the new baseline.
C18_BuffersFromOneLoad ==
    /\ (original_image = None) <=> (original_image_old = None)
    /\ original_image # None =>
           /\ Len(original_image_old.ops) = 1
           /\ original_image_old.ops[1].name = "imdecode"
           /\ original_image = Cleanup(original_image_old)
    /\ last = "load_ok" => processed_image = original_image

-----------------------------------------------------------------------------
(* C19 *)

\* n/100 rounded to a whole sample and clamped to 0..255
Clamp255(n) == IF n <= 0 THEN 0 ELSE Min(255, RoundHalfEven(n, 100))

\* the sample the convolution with the kernel of weight w (hundredths) gives: centre
\* 8w+1, the eight neighbours -w
Convolved(sample, neighbours, w) == Clamp255((8 * w + 100) * sample - w * neighbours)

\* C19: sharpen with weight 0 returns its input; with weight 1 it returns the
\* convolution with the kernel (centre 9, neighbours -1) alone, the original entering
\* with coefficient 0; for every weight the kernel has centre 8w+1 and neighbours -w
\* and the result is (1-w) times the original plus w times the convolved image.
C19_SharpenBlend ==
    (pure.fn = "sharpen" /\ pure.done) =>
        LET w == pure.sharpness
            conv == Convolved(pure.sample, pure.neighbours, w)
        IN  /\ pure.res.kernel_centre = 8 * w + 100
            /\ pure.res.kernel_neighbour = 0 - w
            /\ pure.res.alpha = 100 - w
            /\ pure.res.beta = w
            /\ pure.res.out = Clamp255((100 - w) * pure.sample + w * conv)
            /\ (w = 0 => pure.res.out = pure.sample)
            /\ (w = 100 => /\ pure.res.alpha = 0
                           /\ pure.res.out
                                = Clamp255(900 * pure.sample - 100 * pure.neighbours))

\* a sample sharpened with weight 1 to a value other than its own: 100 with
\* neighbours summing to 510 becomes 255
C19_Witness ==
    /\ pure.fn = "sharpen"
    /\ pure.done
    /\ pure.sharpness = 100
    /\ pure.sample = 100
    /\ pure.neighbours = 510
    /\ pure.res.out = 255

-----------------------------------------------------------------------------
(* C20 *)

\* C20: for a mask of samples 0 and 255 the cleanup gives, at each pixel, the gray
\* sample where the mask is 255 and 255 where the mask is 0, no other value; the two
\* terms of its addition never sum to more than 255.
C20_CompositeKeepsOrWhitens ==
    (pure.fn = "composite" /\ pure.done) =>
        /\ (pure.mask = 255 => pure.res.out = pure.gray)
        /\ (pure.mask = 0 => pure.res.out = 255)
        /\ pure.res.out \in {pure.gray, 255}
        /\ pure.res.binary + pure.res.mask1 <= 255

\* a foreground pixel that is neither black nor white keeps its sample
C20_Witness ==
    /\ pure.fn = "composite"
    /\ pure.done
    /\ pure.mask = 255
    /\ pure.gray = 100
    /\ pure.res.out = 100

-----------------------------------------------------------------------------
(* C21 *)

\* C21: the canvas the perspective warp asks for is the bounding box of its four
\* destination points: moved by (-min_x, -min_y), each point has its x in
\* [0, new_width-1] and its y in [0, new_height-1] (coordinates in 1/200 pixel); when
\* the points span in x what the corners of the input span, the canvas is as wide
\* as the input.
C21_CanvasIsBoundingBox ==
    (pure.fn = "perspective" /\ pure.done) =>
        LET call == pure.out.ops[Len(pure.out.ops)]
            new_width == call.args[1]
            new_height == call.args[2]
            xs == SubSeq(call.args, 3, 6)
            ys == SubSeq(call.args, 7, 10)
            min_x == Min(Min(xs[1], xs[2]), Min(xs[3], xs[4]))
            max_x == Max(Max(xs[1], xs[2]), Max(xs[3], xs[4]))
            min_y == Min(Min(ys[1], ys[2]), Min(ys[3], ys[4]))
        IN  /\ \A i \in 1..4 :
                   /\ 0 <= xs[i] - min_x /\ xs[i] - min_x <= 200 * (new_width - 1)
                   /\ 0 <= ys[i] - min_y /\ ys[i] - min_y <= 200 * (new_height - 1)
            /\ (max_x - min_x = 200 * (pure.width - 1) => new_width = pure.width)

-----------------------------------------------------------------------------
(* C22 *)

\* C22: whenever a baseline is loaded, the processed image is what the pipeline gives
\* for the buffers and the sliders and switches as they are, also right after a load
\* made with sliders or switches off their defaults.
C22_OutputIsPipelineResult ==
    original_image # None =>
        processed_image = Pipeline(original_image, original_image_old, processed_image,
                                   sliders, switches)

-----------------------------------------------------------------------------
(* C23 *)

\* C23: a load that fails to decode leaves the stored path as it was, so the path
\* keeps naming the file the buffers were decoded from.
C23_FailedLoadKeepsPath ==
    [][last' = "load_failed" => original_image_path' = original_image_path]_vars

-----------------------------------------------------------------------------
(* C24 *)

\* C24: a reset starts at most one evaluation of the pipeline; a second one would
\* mean that the first ran on a ParameterSet that is neither the one before the
\* reset nor the all-defaults one.
C24_ResetEvaluatesOnce ==
    (pure.fn = "reset" /\ pure.done) => pure.evals <= 1

-----------------------------------------------------------------------------
(* C25 *)

\* the path the dialog returned asks for an extension other than .png, .jpg, .jpeg
AsksOtherExtension ==
    /\ pure.fn = "save_name"
    /\ pure.done
    /\ StemOf(pure.file_path.name) # pure.file_path.name
    /\ pure.file_path.name[Len(pure.file_path.name)].v \notin {".png", ".jpg", ".jpeg"}

\* C25: a save asked with an extension other than .png, .jpg and .jpeg writes to the
\* requested directory, under the requested base name (with its timestamp suffix,
\* added when it had none), with the final extension .png and nothing else changed.
C25_OnlyFinalExtensionChanged ==
    AsksOtherExtension =>
        LET stem == StemOf(pure.file_path.name)
            stamped == IF TrailingStamps(stem) > 0 THEN stem
                       ELSE stem \o <<Stamp("now")>>
        IN  /\ pure.out.dir = pure.file_path.dir
            /\ pure.out.name = stamped \o <<Ext(".png")>>

====
